---- MODULE Spec2Model ----
(***************************************************************************)
(* Model of the promtail docker Target                                     *)
(* (clients/pkg/promtail/targets/docker/target.go).                        *)
(*                                                                         *)
(* One Target is modelled together with its four goroutines (processLoop,  *)
(* the StdCopy goroutine, and one process goroutine per stream), the       *)
(* external callers of Stop and Details, the position store, the docker    *)
(* log stream and the entry handler channel.  Every blocking call of the   *)
(* code (ContainerLogs, the pipe write/read, the channel send, <-ctx.Done, *)
(* wg.Wait) is a separate step whose guard is the condition under which    *)
(* the call returns.                                                       *)
(*                                                                         *)
(* Strings that the code inspects character by character (log lines,       *)
(* label names, decimal numbers) are sequences of one-character strings.   *)
(* Instants are counted in ticks of 1/TicksPerSecond second.               *)
(***************************************************************************)
EXTENDS Integers, Sequences, FiniteSets, TLC

\* ---------------------------------------------------------------- bounds
MaxFrames  == 2     \* frames the log source delivers in one run
MaxStops   == 2     \* external calls of Stop in one run
MaxDetails == 1     \* external calls of Details in one run
MaxCursor  == 1     \* largest cursor found in the position store at start
MaxRules   == 1     \* longest relabel rule chain

\* ------------------------------------------------------------- constants
TicksPerSecond == 2

Streams == {"stdout", "stderr"}

NoErr == "nil"

FetchErrors == {"no such container", "context canceled"}

containerName == "c1"

\* the container identifier a second Target is created for
peerName == "c2"

Keys == {"c1", "c2"}

\* one key for every container
SharedKey(id) == "c1"

\* positions.CursorKey(id): the key of a container in the position store
CursorKey(id) == id

\* ------------------------------------------------------- strings, numbers
DigitChars == <<"0", "1", "2", "3", "4", "5", "6", "7", "8", "9">>

RECURSIVE FormatNat(_)
FormatNat(n) ==
    IF n < 10 THEN <<DigitChars[n + 1]>>
    ELSE FormatNat(n \div 10) \o <<DigitChars[(n % 10) + 1]>>

\* strconv.FormatInt(n, 10)
FormatInt(n) == IF n < 0 THEN <<"-">> \o FormatNat(0 - n) ELSE FormatNat(n)

\* strconv.FormatBool(b)
FormatBool(b) == IF b THEN "true" ELSE "false"

\* strings.HasPrefix(s, prefix)
HasPrefix(s, prefix) ==
    /\ Len(s) >= Len(prefix)
    /\ SubSeq(s, 1, Len(prefix)) = prefix

\* index of the first separator in s, 0 when there is none
FirstIndex(s, sep) ==
    IF \E i \in 1..Len(s) : s[i] = sep
    THEN CHOOSE i \in 1..Len(s) : s[i] = sep /\ \A j \in 1..(i - 1) : s[j] # sep
    ELSE 0

\* index of the last separator in s, 0 when there is none
LastIndex(s, sep) ==
    IF \E i \in 1..Len(s) : s[i] = sep
    THEN CHOOSE i \in 1..Len(s) : s[i] = sep /\ \A j \in (i + 1)..Len(s) : s[j] # sep
    ELSE 0

\* a split at the last separator
SplitAtLast(s, sep) ==
    LET i == LastIndex(s, sep)
    IN  IF i = 0 THEN <<s>>
        ELSE <<SubSeq(s, 1, i - 1), SubSeq(s, i + 1, Len(s))>>

\* strings.SplitN(s, sep, 2)
SplitN2(s, sep) ==
    LET i == FirstIndex(s, sep)
    IN  IF i = 0 THEN <<s>>
        ELSE <<SubSeq(s, 1, i - 1), SubSeq(s, i + 1, Len(s))>>

\* ------------------------------------------------------------ timestamps
\* The tokens time.Parse accepts: a token is one character naming an
\* instant in ticks ("3" = tick 3 = 1.5s).
TimeChars == {"1", "2", "3", "4"}

TickOf(c) == CASE c = "1" -> 1 [] c = "2" -> 2 [] c = "3" -> 3 [] c = "4" -> 4

\* time.Parse(layout, tok): err is NoErr on success
ParseTime(tok) ==
    IF Len(tok) = 1 /\ tok[1] \in TimeChars
    THEN [err |-> NoErr, ts |-> TickOf(tok[1])]
    ELSE [err |-> "parse", ts |-> 0]

\* time.Time.Unix(): whole seconds
Unix(ts) == ts \div TicksPerSecond

\* extractTs(line): the timestamp returned with an error is time.Now() and
\* is not used by the caller; it is left out of the result.
extractTs(line) ==
    LET pair == SplitN2(line, " ")
    IN  IF Len(pair) # 2
        THEN [err |-> "notimestamp", line |-> line]
        ELSE LET p == ParseTime(pair[1])
             IN  IF p.err # NoErr
                 THEN [err |-> "badtimestamp", line |-> line]
                 ELSE [err |-> NoErr, ts |-> p.ts, line |-> pair[2]]

\* no second Target has been created
NoPeer ==
    [pc |-> "none", since |-> 0, labels |-> <<>>, running |-> FALSE,
     err |-> NoErr, cancelled |-> FALSE, wg |-> 0, logs |-> "none",
     demux |-> "none", frame |-> <<>>,
     closed |-> [s \in Streams |-> FALSE], proc |-> [s \in Streams |-> "none"],
     pending |-> [ts |-> 0, line |-> <<>>], lines |-> 0]

\* extractTs has not been called
NoResult == [err |-> "none", line |-> <<>>]

\* bufio.MaxScanTokenSize, the size of the scanner's buffer (64 KiB in the
\* code), scaled down: a line that fills the buffer without its end being
\* found makes Scan fail with bufio.ErrTooLong
MaxScanTokenSize == 4

TooLong(line) == Len(line) >= MaxScanTokenSize

\* the lines the log source may deliver: two with a timestamp, one without
\* a space, one with an unparsable first token, and one with a timestamp
\* that is longer than the scanner's buffer
Lines ==
    { <<"3", " ", "x">>, <<"4", " ", "x">>, <<"x">>, <<"x", " ", "x">>,
      <<"3", " ", "x", "x">> }

Frames == [stream : Streams, line : Lines]

NoFrame == [stream |-> "none", line |-> <<>>]

\* ------------------------------------------------------------------ labels
\* dockerLabelLogStream: the name of the synthetic log-stream label, a meta
\* label (it starts with the reserved prefix)
dockerLabelLogStream == <<"_", "_", "s">>

ReservedPrefix == <<"_", "_">>

EmptyLabels == [n \in {} |-> ""]

SetLabel(lbls, name, value) ==
    [n \in (DOMAIN lbls) \cup {name} |-> IF n = name THEN value ELSE lbls[n]]

DelLabel(lbls, name) == [n \in (DOMAIN lbls) \ {name} |-> lbls[n]]

\* lines 168-172: the target's labels plus the log-stream label
BuildLabels(lbls, logStream) == SetLabel(lbls, dockerLabelLogStream, logStream)

\* One relabel rule.  "replace" copies the value of label src to label dst
\* when src is present, "labeldrop" removes label src, "drop" drops the
\* whole label set when src is present.
Rules ==
    { [action |-> "replace",   src |-> dockerLabelLogStream, dst |-> <<"s">>],
      [action |-> "replace",   src |-> <<"j">>,              dst |-> <<"_", "_", "k">>],
      [action |-> "labeldrop", src |-> <<"_", "j">>,         dst |-> <<>>],
      [action |-> "drop",      src |-> <<"_", "_", "m">>,    dst |-> <<>>] }

RECURSIVE ChainsOfLen(_)
ChainsOfLen(n) ==
    IF n = 0 THEN {<<>>}
    ELSE {Append(c, r) : c \in ChainsOfLen(n - 1), r \in Rules}

Chains == UNION {ChainsOfLen(n) : n \in 0..MaxRules}

\* relabel.Process(labels, cfgs...): the rules applied in order; a "drop"
\* that fires ends the chain with no labels at all
RECURSIVE Process(_, _)
Process(lbls, chain) ==
    IF chain = <<>> THEN lbls
    ELSE LET r == Head(chain)
         IN  CASE r.action = "replace" ->
                    Process(IF r.src \in DOMAIN lbls
                            THEN SetLabel(lbls, r.dst, lbls[r.src])
                            ELSE lbls, Tail(chain))
               [] r.action = "labeldrop" ->
                    Process(DelLabel(lbls, r.src), Tail(chain))
               [] r.action = "drop" ->
                    IF r.src \in DOMAIN lbls THEN EmptyLabels
                    ELSE Process(lbls, Tail(chain))

\* lines 175-181 without the test of line 177
KeepAllLabels(processed) == processed

\* lines 175-181: the labels of the entry
FilterLabels(processed) ==
    [n \in {m \in DOMAIN processed : ~HasPrefix(m, ReservedPrefix)} |-> processed[n]]

\* the static label sets a target may be created with
LabelSets ==
    { EmptyLabels,
      (<<"j">> :> "a") @@ (<<"_", "j">> :> "b"),
      (<<"_", "_", "m">> :> "a") @@ (<<"j">> :> "b") }

\* the arguments of NewTarget that vary between runs
AllArgs == [labels : LabelSets, relabelConfig : Chains]

PlainArgs ==
    { [labels |-> (<<"j">> :> "a") @@ (<<"_", "j">> :> "b"),
       relabelConfig |-> <<>>] }

NoEntry == [stream |-> "none", labels |-> EmptyLabels, ts |-> 0, line |-> <<>>]

NoDetails ==
    [status |-> "none", id |-> "", error |-> "", position |-> <<>>, running |-> ""]

PanicDetails ==
    [status |-> "panic", id |-> "", error |-> "", position |-> <<>>, running |-> ""]

\* ------------------------------------------------------------------- state
VARIABLES
    posStore,       \* position store: key -> cursor (positions.Positions)
    puts,           \* the calls of positions.Put made by the target, in order
    getFails,       \* whether positions.Get fails for the container's key
    args,           \* the labels and relabelConfig NewTarget is called with
    framesLeft,     \* frames the log source still has to deliver
    newResult,      \* what NewTarget returned: "none" (not called), "ok", "error"
    since,          \* Target.since
    labels,         \* Target.labels
    relabelConfig,  \* Target.relabelConfig
    running,        \* Target.running
    err,            \* Target.err
    cancelled,      \* whether ctx is done (Target.cancel was called)
    wg,             \* the counter of Target.wg
    loopPc,         \* where the processLoop goroutine is
    logs,           \* the stream ContainerLogs returned: "none", "open", "closed"
    logsCloses,     \* number of calls of logs.Close()
    requests,       \* number of calls of client.ContainerLogs
    demuxPc,        \* where the StdCopy goroutine is
    frame,          \* the frame StdCopy is writing to a pipe
    copyEnd,        \* how StdCopy ended: "none", "eof", "error", "closed"
    closeCount,     \* per stream: number of calls of Close on the pipe writer
    procPc,         \* per stream: where the process goroutine is
    pending,        \* per stream: the entry the process goroutine is handling
    emitted,        \* per stream: the lines read from the log source so far
    sink,           \* the entries received from handler.Chan(), in order
    dockerErrors,   \* metrics.dockerErrors
    dockerEntries,  \* metrics.dockerEntries
    stopWaiting,    \* external Stop calls that are blocked in wg.Wait
    stopReturned,   \* external Stop calls that have returned
    details,        \* the result of the last call of Details
    detailsCalls,   \* number of calls of Details
    probe,          \* a line handed to extractTs on its own
    extracted,      \* what extractTs returned for probe
    peer            \* a second Target, created for the container peerName

probeVars  == <<probe, extracted>>
envVars    == <<getFails, args, probeVars, peer>>
targetVars == <<newResult, since, labels, relabelConfig>>
loopVars   == <<loopPc, logs, logsCloses, requests>>
demuxVars  == <<demuxPc, frame, copyEnd, closeCount, framesLeft, emitted>>
procVars   == <<procPc, pending, sink, dockerErrors, dockerEntries>>
stopVars   == <<stopWaiting, stopReturned>>
obsVars    == <<details, detailsCalls>>

vars == <<posStore, puts, envVars, targetVars, running, err, cancelled, wg, loopVars,
          demuxVars, procVars, stopVars, obsVars>>

\* the state before NewTarget is called, for a log source of n frames,
\* NewTarget arguments drawn from argSet and a probe line drawn from probes
InitLine(argSet, n, probes) ==
    /\ \E c \in 0..MaxCursor :
          posStore = [k \in Keys |-> IF k = CursorKey(containerName) THEN c ELSE 0]
    /\ puts = <<>>
    /\ getFails \in BOOLEAN
    /\ args \in argSet
    /\ framesLeft = n
    /\ newResult = "none"
    /\ since = 0
    /\ labels = EmptyLabels
    /\ relabelConfig = <<>>
    /\ running = FALSE
    /\ err = NoErr
    /\ cancelled = FALSE
    /\ wg = 0
    /\ loopPc = "none"
    /\ logs = "none"
    /\ logsCloses = 0
    /\ requests = 0
    /\ demuxPc = "none"
    /\ frame = NoFrame
    /\ copyEnd = "none"
    /\ closeCount = [s \in Streams |-> 0]
    /\ procPc = [s \in Streams |-> "none"]
    /\ pending = [s \in Streams |-> NoEntry]
    /\ emitted = [s \in Streams |-> <<>>]
    /\ sink = <<>>
    /\ dockerErrors = 0
    /\ dockerEntries = 0
    /\ stopWaiting = 0
    /\ stopReturned = 0
    /\ details = NoDetails
    /\ detailsCalls = 0
    /\ probe \in probes
    /\ extracted = NoResult
    /\ peer = NoPeer

InitWith(argSet, n) == InitLine(argSet, n, {<<>>})

Init == InitWith(PlainArgs, MaxFrames)

\* --------------------------------------------------------------- NewTarget
\* lines 62-65 with the stored cursor ignored
SinceZero(pos) == 0

\* lines 62-65
SinceOf(pos) == IF pos # 0 THEN pos ELSE 0

\* line 82: go t.processLoop(ctx)
LoopSpawned == "spawned"

NewTarget ==
    /\ newResult = "none"
    /\ IF getFails
       THEN /\ newResult' = "error"
            /\ UNCHANGED <<since, labels, relabelConfig, loopPc>>
       ELSE /\ newResult' = "ok"
            /\ since' = SinceOf(posStore[CursorKey(containerName)])
            /\ labels' = args.labels
            /\ relabelConfig' = args.relabelConfig
            /\ loopPc' = LoopSpawned
    /\ UNCHANGED <<posStore, puts, envVars, running, err, cancelled, wg, logs,
                   logsCloses, requests, demuxVars, procVars, stopVars, obsVars>>

\* ------------------------------------------------------------- processLoop
\* line 87: t.wg.Add(1)
LoopAdd ==
    /\ loopPc = "spawned"
    /\ wg' = wg + 1
    /\ loopPc' = "store"
    /\ UNCHANGED <<posStore, puts, envVars, targetVars, running, err, cancelled, logs,
                   logsCloses, requests, demuxVars, procVars, stopVars, obsVars>>

\* line 89: t.running.Store(true)
LoopStore ==
    /\ loopPc = "store"
    /\ running' = TRUE
    /\ loopPc' = "fetch"
    /\ UNCHANGED <<posStore, puts, envVars, targetVars, err, cancelled, wg, logs,
                   logsCloses, requests, demuxVars, procVars, stopVars, obsVars>>

\* lines 91-99: ContainerLogs is called with ctx and the options; what the
\* client answers, with a context that is done as with a live one, is the
\* client's choice: a stream (LoopFetchOk) or an error (LoopFetchFail)
LoopCall ==
    /\ loopPc = "fetch"
    /\ loopPc' = "fetching"
    /\ requests' = requests + 1
    /\ UNCHANGED <<posStore, puts, envVars, targetVars, running, err, cancelled, wg,
                   logs, logsCloses, demuxVars, procVars, stopVars, obsVars>>

\* line 99, err == nil: ContainerLogs returns the stream
LoopFetchOk ==
    /\ loopPc = "fetching"
    /\ logs' = "open"
    /\ loopPc' = "spawnDemux"
    /\ UNCHANGED <<posStore, puts, envVars, targetVars, running, err, cancelled, wg,
                   logsCloses, requests, demuxVars, procVars, stopVars, obsVars>>

\* lines 99-103, err != nil: ContainerLogs fails with e
LoopFetchFail(e) ==
    /\ loopPc = "fetching"
    /\ err' = e
    /\ loopPc' = "ret"
    /\ UNCHANGED <<posStore, puts, envVars, targetVars, running, cancelled, wg, logs,
                   logsCloses, requests, demuxVars, procVars, stopVars, obsVars>>

\* a loop that goes back to the request after a failure instead of returning
LoopReturnRetry ==
    /\ loopPc = "ret"
    /\ requests < 2
    /\ loopPc' = "fetch"
    /\ UNCHANGED <<posStore, puts, envVars, targetVars, running, err, cancelled, wg,
                   logs, logsCloses, requests, demuxVars, procVars, stopVars,
                   obsVars>>

\* line 103 with the deferred t.wg.Done() of line 88
LoopReturn ==
    /\ loopPc = "ret"
    /\ wg' = wg - 1
    /\ loopPc' = "done"
    /\ UNCHANGED <<posStore, puts, envVars, targetVars, running, err, cancelled, logs,
                   logsCloses, requests, demuxVars, procVars, stopVars, obsVars>>

\* lines 107-110: the pipes, t.wg.Add(1) and the StdCopy goroutine
LoopSpawnDemux ==
    /\ loopPc = "spawnDemux"
    /\ wg' = wg + 1
    /\ demuxPc' = "copy"
    /\ loopPc' = "spawnProc"
    /\ UNCHANGED <<posStore, puts, envVars, targetVars, running, err, cancelled, logs,
                   logsCloses, requests, frame, copyEnd, closeCount, framesLeft, emitted,
                   procVars, stopVars, obsVars>>

\* lines 127-129: t.wg.Add(2) and the two process goroutines
LoopSpawnProc ==
    /\ loopPc = "spawnProc"
    /\ wg' = wg + 2
    /\ procPc' = [s \in Streams |-> "scan"]
    /\ loopPc' = "wait"
    /\ UNCHANGED <<posStore, puts, envVars, targetVars, running, err, cancelled, logs,
                   logsCloses, requests, demuxVars, pending, sink, dockerErrors,
                   dockerEntries, stopVars, obsVars>>

\* line 132: <-ctx.Done() returns
LoopWait ==
    /\ loopPc = "wait"
    /\ cancelled
    /\ loopPc' = "unset"
    /\ UNCHANGED <<posStore, puts, envVars, targetVars, running, err, cancelled, wg,
                   logs, logsCloses, requests, demuxVars, procVars, stopVars, obsVars>>

\* line 133: t.running.Store(false)
LoopUnset ==
    /\ loopPc = "unset"
    /\ running' = FALSE
    /\ loopPc' = "close"
    /\ UNCHANGED <<posStore, puts, envVars, targetVars, err, cancelled, wg, logs,
                   logsCloses, requests, demuxVars, procVars, stopVars, obsVars>>

\* line 134 left out: the stream stays open
LoopCloseSkipped ==
    /\ loopPc = "close"
    /\ loopPc' = "exit"
    /\ UNCHANGED <<posStore, puts, envVars, targetVars, running, err, cancelled, wg,
                   logs, logsCloses, requests, demuxVars, procVars, stopVars, obsVars>>

\* line 134: logs.Close()
LoopClose ==
    /\ loopPc = "close"
    /\ logs' = "closed"
    /\ logsCloses' = logsCloses + 1
    /\ loopPc' = "exit"
    /\ UNCHANGED <<posStore, puts, envVars, targetVars, running, err, cancelled, wg,
                   requests, demuxVars, procVars, stopVars, obsVars>>

\* lines 135-136 with the deferred t.wg.Done() of line 88
LoopExit ==
    /\ loopPc = "exit"
    /\ wg' = wg - 1
    /\ loopPc' = "done"
    /\ UNCHANGED <<posStore, puts, envVars, targetVars, running, err, cancelled, logs,
                   logsCloses, requests, demuxVars, procVars, stopVars, obsVars>>

\* ------------------------------------------------- the StdCopy goroutine
\* line 118: StdCopy reads the next frame f from logs and starts writing
\* its payload to the pipe of its stream
DemuxRead(f) ==
    /\ demuxPc = "copy"
    /\ logs = "open"
    /\ framesLeft > 0
    /\ framesLeft' = framesLeft - 1
    /\ frame' = f
    /\ emitted' = [emitted EXCEPT ![f.stream] = Append(@, f.line)]
    /\ demuxPc' = "write"
    /\ UNCHANGED <<posStore, puts, envVars, targetVars, running, err, cancelled, wg,
                   loopVars, copyEnd, closeCount, procVars, stopVars, obsVars>>

\* lines 118-123: StdCopy returns because the read on logs ended: with EOF
\* ("eof"), with a framing or read error ("error"), or because logs was
\* closed ("closed")
DemuxEnd(how) ==
    /\ demuxPc = "copy"
    /\ \/ how \in {"eof", "error"} /\ logs = "open"
       \/ how = "closed" /\ logs = "closed"
    /\ copyEnd' = how
    /\ demuxPc' = "deferDone"
    /\ UNCHANGED <<posStore, puts, envVars, targetVars, running, err, cancelled, wg,
                   loopVars, frame, closeCount, framesLeft, emitted, procVars,
                   stopVars, obsVars>>

\* line 112: t.wg.Done()
DemuxDone ==
    /\ demuxPc = "deferDone"
    /\ wg' = wg - 1
    /\ demuxPc' = "closeStdout"
    /\ UNCHANGED <<posStore, puts, envVars, targetVars, running, err, cancelled,
                   loopVars, frame, copyEnd, closeCount, framesLeft, emitted,
                   procVars, stopVars, obsVars>>

\* line 113: wstdout.Close()
DemuxCloseStdout ==
    /\ demuxPc = "closeStdout"
    /\ closeCount' = [closeCount EXCEPT !["stdout"] = @ + 1]
    /\ demuxPc' = "closeStderr"
    /\ UNCHANGED <<posStore, puts, envVars, targetVars, running, err, cancelled, wg,
                   loopVars, frame, copyEnd, framesLeft, emitted, procVars,
                   stopVars, obsVars>>

\* line 114: wstderr.Close()
DemuxCloseStderr ==
    /\ demuxPc = "closeStderr"
    /\ closeCount' = [closeCount EXCEPT !["stderr"] = @ + 1]
    /\ demuxPc' = "stop"
    /\ UNCHANGED <<posStore, puts, envVars, targetVars, running, err, cancelled, wg,
                   loopVars, frame, copyEnd, framesLeft, emitted, procVars,
                   stopVars, obsVars>>

\* line 115 left out: the deferred function ends without t.Stop()
DemuxStopNoCancel ==
    /\ demuxPc = "stop"
    /\ demuxPc' = "done"
    /\ UNCHANGED <<posStore, puts, envVars, targetVars, running, err, cancelled, wg,
                   loopVars, frame, copyEnd, closeCount, framesLeft, emitted,
                   procVars, stopVars, obsVars>>

\* line 115, t.Stop(), line 202: t.cancel()
DemuxStopCancel ==
    /\ demuxPc = "stop"
    /\ cancelled' = TRUE
    /\ demuxPc' = "stopWait"
    /\ UNCHANGED <<posStore, puts, envVars, targetVars, running, err, wg, loopVars,
                   frame, copyEnd, closeCount, framesLeft, emitted, procVars,
                   stopVars, obsVars>>

\* line 115, t.Stop(), lines 203-205: t.wg.Wait() returns
DemuxStopWait ==
    /\ demuxPc = "stopWait"
    /\ wg = 0
    /\ demuxPc' = "done"
    /\ UNCHANGED <<posStore, puts, envVars, targetVars, running, err, cancelled, wg,
                   loopVars, frame, copyEnd, closeCount, framesLeft, emitted,
                   procVars, stopVars, obsVars>>

\* ------------------------------------------------ the process goroutines
\* lines 183-189: the entry built from a line of stream s
EntryOf(s, ts, text) ==
    [stream |-> s,
     labels |-> FilterLabels(Process(BuildLabels(labels, s), relabelConfig)),
     ts     |-> ts,
     line   |-> text]

\* line 163 left out
ErrorsSame(n) == n

\* line 163: t.metrics.dockerErrors.Inc()
ErrorsInc(n) == n + 1

\* lines 158-182: scanner.Scan() returns the line StdCopy is writing to the
\* pipe of stream s (the pipe write returns), extractTs; a line without a
\* timestamp is counted and skipped
ProcScan(s) ==
    /\ procPc[s] = "scan"
    /\ demuxPc = "write"
    /\ frame.stream = s
    /\ ~TooLong(frame.line)
    /\ frame' = NoFrame
    /\ demuxPc' = "copy"
    /\ LET r == extractTs(frame.line)
       IN  IF r.err # NoErr
           THEN /\ dockerErrors' = ErrorsInc(dockerErrors)
                /\ UNCHANGED <<procPc, pending>>
           ELSE /\ pending' = [pending EXCEPT ![s] = EntryOf(s, r.ts, r.line)]
                /\ procPc' = [procPc EXCEPT ![s] = "send"]
                /\ UNCHANGED dockerErrors
    /\ UNCHANGED <<posStore, puts, envVars, targetVars, running, err, cancelled, wg,
                   loopVars, copyEnd, closeCount, framesLeft, emitted, sink,
                   dockerEntries, stopVars, obsVars>>

\* a channel that hands over the newest entry first
SinkPush(q, e) == <<e>> \o q

\* the entries received from the channel after entry e was received
SinkAppend(q, e) == Append(q, e)

\* a send that gives the entry up once the context is done
ProcSendOrDrop(s) ==
    /\ procPc[s] = "send"
    /\ IF cancelled
       THEN /\ pending' = [pending EXCEPT ![s] = NoEntry]
            /\ procPc' = [procPc EXCEPT ![s] = "scan"]
            /\ UNCHANGED sink
       ELSE /\ sink' = SinkAppend(sink, pending[s])
            /\ procPc' = [procPc EXCEPT ![s] = "inc"]
            /\ UNCHANGED pending
    /\ UNCHANGED <<posStore, puts, envVars, targetVars, running, err, cancelled, wg,
                   loopVars, demuxVars, dockerErrors, dockerEntries, stopVars,
                   obsVars>>

\* lines 183-189: the send on t.handler.Chan() returns: the entry handler
\* has received the entry
ProcSend(s) ==
    /\ procPc[s] = "send"
    /\ sink' = SinkAppend(sink, pending[s])
    /\ procPc' = [procPc EXCEPT ![s] = "inc"]
    /\ UNCHANGED <<posStore, puts, envVars, targetVars, running, err, cancelled, wg,
                   loopVars, demuxVars, pending, dockerErrors, dockerEntries,
                   stopVars, obsVars>>

\* line 190: t.metrics.dockerEntries.Inc()
ProcInc(s) ==
    /\ procPc[s] = "inc"
    /\ dockerEntries' = dockerEntries + 1
    /\ procPc' = [procPc EXCEPT ![s] = "put"]
    /\ UNCHANGED <<posStore, puts, envVars, targetVars, running, err, cancelled, wg,
                   loopVars, demuxVars, pending, sink, dockerErrors, stopVars,
                   obsVars>>

\* a position store that keeps the larger of the old and the new cursor
PutMax(old, new) == IF new > old THEN new ELSE old

\* positions.Put(key, pos): the cursor stored under key after the call
PutValue(old, new) == new

\* a line processor that writes the position while the send is still pending
ProcPutEarly(s) ==
    /\ procPc[s] = "send"
    /\ posStore' = [posStore EXCEPT ![CursorKey(containerName)] =
                        PutValue(@, Unix(pending[s].ts))]
    /\ puts' = Append(puts, [stream |-> s, ts |-> pending[s].ts])
    /\ pending' = [pending EXCEPT ![s] = NoEntry]
    /\ procPc' = [procPc EXCEPT ![s] = "scan"]
    /\ UNCHANGED <<envVars, targetVars, running, err, cancelled, wg, loopVars,
                   demuxVars, sink, dockerErrors, dockerEntries, stopVars,
                   obsVars>>

\* line 191: t.positions.Put(positions.CursorKey(t.containerName), ts.Unix())
ProcPut(s) ==
    /\ procPc[s] = "put"
    /\ posStore' = [posStore EXCEPT ![CursorKey(containerName)] =
                        PutValue(@, Unix(pending[s].ts))]
    /\ puts' = Append(puts, [stream |-> s, ts |-> pending[s].ts])
    /\ pending' = [pending EXCEPT ![s] = NoEntry]
    /\ procPc' = [procPc EXCEPT ![s] = "scan"]
    /\ UNCHANGED <<envVars, targetVars, running, err, cancelled, wg, loopVars,
                   demuxVars, sink, dockerErrors, dockerEntries, stopVars,
                   obsVars>>

\* lines 158, 194-197 and 153-155: the line StdCopy is writing to the pipe
\* of stream s fills the scanner's buffer: scanner.Scan() returns false,
\* scanner.Err() is bufio.ErrTooLong, the goroutine returns and the deferred
\* t.wg.Done() runs.  The pipe stays open with nobody reading it, so the
\* write of StdCopy (the rest of the line) never returns.
ProcTooLong(s) ==
    /\ procPc[s] = "scan"
    /\ demuxPc = "write"
    /\ frame.stream = s
    /\ TooLong(frame.line)
    /\ wg' = wg - 1
    /\ procPc' = [procPc EXCEPT ![s] = "done"]
    /\ UNCHANGED <<posStore, puts, envVars, targetVars, running, err, cancelled,
                   loopVars, demuxVars, pending, sink, dockerErrors,
                   dockerEntries, stopVars, obsVars>>

\* lines 158, 194-199 and 153-155: scanner.Scan() returns false because the
\* pipe writer of stream s is closed; the deferred t.wg.Done()
ProcEOF(s) ==
    /\ procPc[s] = "scan"
    /\ closeCount[s] > 0
    /\ wg' = wg - 1
    /\ procPc' = [procPc EXCEPT ![s] = "done"]
    /\ UNCHANGED <<posStore, puts, envVars, targetVars, running, err, cancelled,
                   loopVars, demuxVars, pending, sink, dockerErrors,
                   dockerEntries, stopVars, obsVars>>

\* ---------------------------------------------------------- Stop, Details
\* line 202: an external caller enters Stop: t.cancel()
StopCall ==
    /\ newResult = "ok"
    /\ stopWaiting + stopReturned < MaxStops
    /\ cancelled' = TRUE
    /\ stopWaiting' = stopWaiting + 1
    /\ UNCHANGED <<posStore, puts, envVars, targetVars, running, err, wg, loopVars,
                   demuxVars, procVars, stopReturned, obsVars>>

\* lines 203-205: t.wg.Wait() returns and so does Stop
StopReturn ==
    /\ stopWaiting > 0
    /\ wg = 0
    /\ stopWaiting' = stopWaiting - 1
    /\ stopReturned' = stopReturned + 1
    /\ UNCHANGED <<posStore, puts, envVars, targetVars, running, err, cancelled, wg,
                   loopVars, demuxVars, procVars, obsVars>>

\* positions.GetString(key): the cursor as the position store holds it
GetString(key) == FormatInt(posStore[key])

\* lines 224-231: t.err.Error() on a nil error is a nil dereference
DetailsOf(e, position, run) ==
    IF e = NoErr
    THEN PanicDetails
    ELSE [status   |-> "ok",
          id       |-> containerName,
          error    |-> e,
          position |-> position,
          running  |-> FormatBool(run)]

Details ==
    /\ newResult = "ok"
    /\ detailsCalls < MaxDetails
    /\ detailsCalls' = detailsCalls + 1
    /\ details' = DetailsOf(err, GetString(CursorKey(containerName)), running)
    /\ UNCHANGED <<posStore, puts, envVars, targetVars, running, err, cancelled, wg,
                   loopVars, demuxVars, procVars, stopVars>>

\* line 212: Ready()
Ready == running

\* ----------------------------------------------------------- specification
Next ==
    \/ NewTarget
    \/ LoopAdd
    \/ LoopStore
    \/ LoopCall
    \/ LoopFetchOk
    \/ \E e \in FetchErrors : LoopFetchFail(e)
    \/ LoopReturn
    \/ LoopSpawnDemux
    \/ LoopSpawnProc
    \/ LoopWait
    \/ LoopUnset
    \/ LoopClose
    \/ LoopExit
    \/ \E f \in Frames : DemuxRead(f)
    \/ \E how \in {"eof", "error", "closed"} : DemuxEnd(how)
    \/ DemuxDone
    \/ DemuxCloseStdout
    \/ DemuxCloseStderr
    \/ DemuxStopCancel
    \/ DemuxStopWait
    \/ \E s \in Streams : ProcScan(s)
    \/ \E s \in Streams : ProcSend(s)
    \/ \E s \in Streams : ProcInc(s)
    \/ \E s \in Streams : ProcPut(s)
    \/ \E s \in Streams : ProcTooLong(s)
    \/ \E s \in Streams : ProcEOF(s)
    \/ StopCall
    \/ StopReturn
    \/ Details

Spec == Init /\ [][Next]_vars

\* ---------------------------------------------------------------- fairness
\* Every goroutine that can take a step eventually takes it, a call of
\* ContainerLogs eventually returns and a wg.Wait whose counter stays zero
\* returns.  Nothing is assumed of the environment: that Stop or Details is
\* called, that the log source delivers, ends or fails, or that the entry
\* handler receives from its channel.
Fairness ==
    /\ WF_vars(LoopAdd)
    /\ WF_vars(LoopStore)
    /\ WF_vars(LoopCall)
    /\ WF_vars(LoopFetchOk \/ \E e \in FetchErrors : LoopFetchFail(e))
    /\ WF_vars(LoopReturn)
    /\ WF_vars(LoopSpawnDemux)
    /\ WF_vars(LoopSpawnProc)
    /\ WF_vars(LoopWait)
    /\ WF_vars(LoopUnset)
    /\ WF_vars(LoopClose)
    /\ WF_vars(LoopExit)
    /\ WF_vars(DemuxEnd("closed"))
    /\ WF_vars(DemuxDone)
    /\ WF_vars(DemuxCloseStdout)
    /\ WF_vars(DemuxCloseStderr)
    /\ WF_vars(DemuxStopCancel)
    /\ WF_vars(DemuxStopWait)
    /\ \A s \in Streams : WF_vars(ProcScan(s))
    /\ \A s \in Streams : WF_vars(ProcInc(s))
    /\ \A s \in Streams : WF_vars(ProcPut(s))
    /\ \A s \in Streams : WF_vars(ProcTooLong(s))
    /\ \A s \in Streams : WF_vars(ProcEOF(s))
    /\ WF_vars(StopReturn)

\* a log source of one frame is enough to block a line processor in its send
MaxFairFrames == 1

FairInit == InitWith(PlainArgs, MaxFairFrames)

FairSpec == FairInit /\ [][Next]_vars /\ Fairness

\* ------------------------------------------------------------------ claims
LoopLive == loopPc \notin {"none", "done"}

DemuxLive == demuxPc \notin {"none", "done"}

ProcLive(s) == procPc[s] \notin {"none", "done"}

AnyWorkerLive == LoopLive \/ DemuxLive \/ \E s \in Streams : ProcLive(s)

\* C1: once a call of Stop has returned, Ready() is false and no worker of
\* the target (processing loop, demultiplexer, line processors) is live or
\* still to start.
C1_AfterStopNothingLive ==
    stopReturned > 0 => (~Ready /\ ~AnyWorkerLive)

\* C2: when the log-stream request failed, the target ends not ready, with
\* the request's error recorded and with no worker running.
C2_FetchFailureEndState ==
    (loopPc = "done" /\ logs = "none") =>
        /\ ~Ready
        /\ err \in FetchErrors
        /\ demuxPc = "none"
        /\ \A s \in Streams : procPc[s] = "none"

\* C3: running is true only while the log stream has been acquired and the
\* cancellation has not yet been handled by the processing loop.
C3_RunningOnlyWhileStreaming ==
    running =>
        /\ logs = "open"
        /\ loopPc \in {"spawnDemux", "spawnProc", "wait", "unset"}

\* C4: Stop is idempotent from both directions: the counter of the wait
\* group never goes negative, no pipe and no stream is closed twice, and no
\* call of Stop (external, or the demultiplexer's own) returns while a
\* worker of the target is live.
C4_StopIdempotentAndJoins ==
    /\ wg >= 0
    /\ logsCloses <= 1
    /\ \A s \in Streams : closeCount[s] <= 1
    /\ stopReturned > 0 => ~AnyWorkerLive
    /\ demuxPc = "done" => ~(LoopLive \/ \E s \in Streams : ProcLive(s))

\* C9: Details can be called in every state of a target and returns a
\* snapshot instead of failing.
C9_DetailsNeverFails == details.status # "panic"

\* C10: NewTarget returns an error exactly when the position-store lookup
\* fails, and then no target exists and no worker ever starts; otherwise it
\* returns at once, before the log fetch is resolved, a target whose cursor
\* is the stored cursor and whose processing loop has been started.
C10_NewTargetContract ==
    [][ /\ (newResult' = "error") =>
              /\ getFails
              /\ ~AnyWorkerLive'
              /\ loopPc' = "none"
              /\ wg' = 0
        /\ (newResult = "none" /\ newResult' = "ok") =>
              /\ ~getFails
              /\ since' = posStore[CursorKey(containerName)]
              /\ loopPc' = "spawned"
              /\ logs' = "none"
              /\ err' = NoErr
              /\ ~running'
        /\ (newResult = "none" /\ getFails) => (newResult' = "error")
      ]_vars

C10_Witness ==
    /\ newResult = "ok"
    /\ since > 0
    /\ loopPc = "spawned"
    /\ logs = "none"

\* ---- what the entry handler received, and what the log source delivered
IsPrefix(a, b) == Len(a) <= Len(b) /\ SubSeq(b, 1, Len(a)) = a

WellFormed(line) == extractTs(line).err = NoErr

\* the timestamps and texts of the entries received from stream s, in order
Delivered(s) ==
    LET OfStream(e) == e.stream = s
        q == SelectSeq(sink, OfStream)
    IN  [i \in 1..Len(q) |-> <<q[i].ts, q[i].line>>]

\* the timestamps and texts of the well-formed lines of stream s, in order
Expected(s) ==
    LET wf == SelectSeq(emitted[s], WellFormed)
    IN  [i \in 1..Len(wf) |-> <<extractTs(wf[i]).ts, extractTs(wf[i]).line>>]

\* the lines of stream s the line processor has taken from its pipe
Scanned(s) ==
    IF demuxPc = "write" /\ frame.stream = s
    THEN SubSeq(emitted[s], 1, Len(emitted[s]) - 1)
    ELSE emitted[s]

Malformed(line) == ~WellFormed(line)

MalformedCount(s) == Len(SelectSeq(Scanned(s), Malformed))

\* C6: within one stream the entries reach the sink in the order of the
\* stream's well-formed lines, and once the stream has ended and its line
\* processor has exited the sink holds exactly one entry per well-formed
\* line: none lost, duplicated or reordered.
C6_OrderPreservedPerStream ==
    \A s \in Streams :
        /\ IsPrefix(Delivered(s), Expected(s))
        /\ procPc[s] = "done" => Delivered(s) = Expected(s)

C6_Witness ==
    /\ copyEnd = "eof"
    /\ procPc["stdout"] = "done"
    /\ Len(Delivered("stdout")) = 2
    /\ Delivered("stdout")[1] # Delivered("stdout")[2]

\* the entries of the sink whose line processor has passed line 190
Counted == Len(sink) - Cardinality({s \in Streams : procPc[s] = "inc"})

\* the cursors the position store can hold: the one found by NewTarget and
\* those of the entries received by the sink
CursorsOfSink == {since} \cup {Unix(sink[i].ts) : i \in 1..Len(sink)}

\* C7: a line without an extractable timestamp is skipped: it is counted
\* once in the error counter and nowhere else.  The error counter is the
\* number of malformed lines taken, the entries counter counts only entries
\* that were sent, the sink holds only the well-formed lines (all of them
\* once the processor has exited) and the stored cursor is never taken from
\* a malformed line.
C7_MalformedLineSkipped ==
    /\ dockerErrors = MalformedCount("stdout") + MalformedCount("stderr")
    /\ dockerEntries = Counted
    /\ \A s \in Streams :
          /\ Len(Delivered(s)) <= Len(Expected(s))
          /\ procPc[s] = "done" => Len(Delivered(s)) = Len(Expected(s))
          /\ procPc[s] = "scan" => pending[s] = NoEntry
    /\ newResult = "ok" => posStore[CursorKey(containerName)] \in CursorsOfSink

C7_Witness ==
    /\ dockerErrors = 1
    /\ Len(sink) = 1
    /\ \E s \in Streams :
          /\ Len(emitted[s]) = 2
          /\ Malformed(emitted[s][1])
          /\ procPc[s] = "done"

\* C8: no entry sent to the sink has a label whose name starts with "__",
\* and every other label the relabel engine returned is in the entry with
\* its value.
Reserved(name) == Len(name) >= 2 /\ name[1] = "_" /\ name[2] = "_"

EntryLabelsOk(e) ==
    LET out == Process(BuildLabels(labels, e.stream), relabelConfig)
    IN  /\ \A n \in DOMAIN e.labels : ~Reserved(n) /\ n \in DOMAIN out
        /\ \A n \in DOMAIN out :
              ~Reserved(n) => (n \in DOMAIN e.labels /\ e.labels[n] = out[n])

C8_NoReservedLabels ==
    /\ \A i \in 1..Len(sink) : EntryLabelsOk(sink[i])
    /\ \A s \in Streams : procPc[s] = "send" => EntryLabelsOk(pending[s])

C8_Witness ==
    \E i \in 1..Len(sink) :
        LET out == Process(BuildLabels(labels, sink[i].stream), relabelConfig)
        IN  /\ DOMAIN sink[i].labels # {}
            /\ DOMAIN sink[i].labels # DOMAIN out
            /\ relabelConfig # <<>>

\* a log source of one frame, any labels and any relabel rule chain
MaxLabelFrames == 1

LabelInit == InitWith(AllArgs, MaxLabelFrames)

LabelSpec == LabelInit /\ [][Next]_vars

\* ---- cancellation
\* the teardown is complete: every worker has exited, the counter is zero,
\* no call of Stop is pending, and the stream and both pipes, if they were
\* ever opened, are closed
TornDown ==
    /\ ~AnyWorkerLive
    /\ wg = 0
    /\ stopWaiting = 0
    /\ logs # "none" => (logs = "closed" /\ \A s \in Streams : closeCount[s] > 0)

\* no line processor is blocked in the send to the entry handler
SinkFree == \A s \in Streams : procPc[s] # "send"

\* C5 as stated: once the cancellation signal has fired, the teardown
\* eventually completes.
C5_CancellationCompletes == cancelled ~> TornDown

\* C5 with an entry handler that eventually receives every entry a line
\* processor is sending: once the cancellation signal has fired the
\* teardown eventually completes.
C5_CancellationCompletesIfSinkReceives ==
    ([]<>SinkFree) => (cancelled ~> TornDown)

C5_Witness ==
    /\ cancelled
    /\ TornDown
    /\ logs = "closed"
    /\ copyEnd = "closed"
    /\ Len(sink) > 0

\* ---- the completion counter
\* the workers of the target that have been spawned and have not yet exited
LiveWorkers ==
    (IF LoopLive THEN 1 ELSE 0) + (IF DemuxLive THEN 1 ELSE 0)
        + Cardinality({s \in Streams : ProcLive(s)})

\* C17: the counter of the wait group is never negative and is at least the
\* number of workers that have been spawned and have not yet exited, so a
\* wait on it cannot complete while a worker is live or about to register.
C17_CounterCoversWorkers ==
    /\ wg >= 0
    /\ wg >= LiveWorkers

\* ---- a failed request
\* the target is inert: nothing was sent, nothing was written to the position
\* store, no demultiplexer and no line processor was started, no stream is held
Inert ==
    /\ sink = <<>>
    /\ puts = <<>>
    /\ demuxPc = "none"
    /\ \A s \in Streams : procPc[s] = "none"
    /\ logs = "none"

\* C16: the log-stream request is issued at most once and never retried.
\* Once it has failed the processing loop only returns, the target is inert
\* in every later state, and the error field, written at most once, keeps
\* the failure of the request.
C16_FailedRequestIsFinal ==
    /\ [](/\ requests <= 1
          /\ err # NoErr =>
                /\ requests = 1
                /\ err \in FetchErrors
                /\ loopPc \in {"ret", "done"}
                /\ Inert)
    /\ [][/\ requests' >= requests
          /\ err # NoErr => err' = err
          /\ loopPc = "done" => loopPc' = "done"]_vars

C16_Witness ==
    /\ err = "no such container"
    /\ requests = 1
    /\ loopPc = "done"
    /\ stopReturned > 0
    /\ details.status = "ok"

\* ---- the cursor and the delivery
\* the instants written to the position store on behalf of stream s, in order
PutsOf(s) ==
    LET OfStream(w) == w.stream = s
        q == SelectSeq(puts, OfStream)
    IN  [i \in 1..Len(q) |-> q[i].ts]

\* the instants of the entries the sink has received from stream s, in order
DeliveredTs(s) == [i \in 1..Len(Delivered(s)) |-> Delivered(s)[i][1]]

\* the position written last came from the other stream and lies beyond the
\* line the processor of stream s is still sending: a resume from the stored
\* cursor starts after that line
SkipsUndelivered(s) ==
    /\ procPc[s] = "send"
    /\ puts # <<>>
    /\ puts[Len(puts)].stream # s
    /\ posStore[CursorKey(containerName)] = Unix(puts[Len(puts)].ts)
    /\ Unix(pending[s].ts) < posStore[CursorKey(containerName)]

\* the position writes of a stream follow its completed sends one by one
\* (the write for a line exists only if the sink holds that line's entry,
\* and at most one received entry is still without its write), so the
\* stored cursor is the value found by NewTarget or the unix seconds of a
\* received entry
PutAfterSend ==
    /\ \A s \in Streams :
          /\ IsPrefix(PutsOf(s), DeliveredTs(s))
          /\ Len(DeliveredTs(s)) - Len(PutsOf(s)) =
                (IF procPc[s] \in {"inc", "put"} THEN 1 ELSE 0)
          /\ procPc[s] = "send" =>
                \A i \in 1..Len(puts) : puts[i] # [stream |-> s, ts |-> pending[s].ts]
                    \/ \E j \in 1..Len(sink) :
                          sink[j].stream = s /\ sink[j].ts = pending[s].ts
    /\ newResult = "ok" =>
          posStore[CursorKey(containerName)] \in
              {since} \cup {Unix(sink[i].ts) : i \in 1..Len(sink)}

\* C18 as stated: the stored cursor never runs ahead of the delivery: a
\* position is written only after the send of its line has completed, the
\* stored cursor is the value found by NewTarget or the unix seconds of a
\* received entry, and the stored cursor never lies beyond a line whose send
\* has not completed.
C18_CursorNeverSkips ==
    /\ PutAfterSend
    /\ \A s \in Streams : ~SkipsUndelivered(s)

\* C18 as amended: a position is written only after the send of its own
\* line has completed, and the stored cursor is the value found by NewTarget
\* or the unix seconds of a received entry; a line of the other stream may
\* still be undelivered behind it.
C18_CursorBehindDelivery ==
    /\ PutAfterSend
    /\ \A s \in Streams :
          SkipsUndelivered(s) =>
              \E j \in 1..Len(sink) :
                  /\ sink[j].stream # s
                  /\ Unix(sink[j].ts) = posStore[CursorKey(containerName)]

\* the stdout processor has sent its line and written its position; the
\* stderr processor is still sending an older line, which a resume from the
\* stored cursor skips
C18_Witness ==
    /\ Len(puts) = 1
    /\ puts[1].stream = "stdout"
    /\ SkipsUndelivered("stderr")
    /\ posStore[CursorKey(containerName)] = Unix(sink[1].ts)
    /\ posStore[CursorKey(containerName)] # since

\* ---- last write wins
\* the cursor the position store holds after the writes of puts
LastWritten == IF puts = <<>> THEN since ELSE Unix(puts[Len(puts)].ts)

\* the largest cursor among the entries the sink has received
MaxForwarded ==
    CHOOSE m \in {Unix(sink[i].ts) : i \in 1..Len(sink)} :
        \A i \in 1..Len(sink) : Unix(sink[i].ts) <= m

\* the lines of stream s carry instants that never decrease
Ascending(s) ==
    \A i, j \in 1..Len(Expected(s)) :
        i <= j => Expected(s)[i][1] <= Expected(s)[j][1]

\* C15: the stored cursor is the one written last, not the largest one:
\* every position write replaces the stored value by the unix seconds of its
\* line, so the store always holds the cursor of the latest write of either
\* stream; when only one stream carried lines, with instants that never
\* decrease, and its processor has exited, the cursor is that of the last
\* line.
C15_CursorIsLastWrite ==
    newResult = "ok" =>
        /\ posStore[CursorKey(containerName)] = LastWritten
        /\ \A s \in Streams :
              (/\ procPc[s] = "done"
               /\ Expected(s) # <<>>
               /\ Ascending(s)
               /\ \A o \in Streams \ {s} : emitted[o] = <<>>) =>
                    posStore[CursorKey(containerName)] =
                        Unix(Expected(s)[Len(Expected(s))][1])

\* both streams carried a line and the final cursor is below the largest
\* cursor forwarded
C15_Witness ==
    /\ \A s \in Streams : procPc[s] = "done" /\ Len(Delivered(s)) = 1
    /\ Len(puts) = 2
    /\ posStore[CursorKey(containerName)] < MaxForwarded

\* one stream with two lines of increasing instants, all processed
C15_WitnessSingle ==
    /\ procPc["stdout"] = "done"
    /\ Len(Delivered("stdout")) = 2
    /\ Delivered("stdout")[1][1] < Delivered("stdout")[2][1]
    /\ emitted["stderr"] = <<>>
    /\ posStore[CursorKey(containerName)] = Unix(Delivered("stdout")[2][1])

\* ---- a slow entry handler
\* the line processor of stream s is blocked in the send of line 183
Blocked(s) == procPc[s] = "send"

\* the entry the line processor of stream s is sending, if any
InFlight(s) ==
    IF Blocked(s) THEN << <<pending[s].ts, pending[s].line>> >> ELSE <<>>

\* the instants and texts of the well-formed lines taken from the pipe of s
Taken(s) ==
    LET wf == SelectSeq(Scanned(s), WellFormed)
    IN  [i \in 1..Len(wf) |-> <<extractTs(wf[i]).ts, extractTs(wf[i]).line>>]

\* no line is dropped or sent twice: the entries received from stream s,
\* followed by the one being sent, are the well-formed lines taken from the
\* pipe; the line being sent has no position write yet, and no error is
\* recorded
NothingDropped ==
    \A s \in Streams :
        /\ Delivered(s) \o InFlight(s) = Taken(s)
        /\ Blocked(s) =>
              /\ err = NoErr
              /\ Len(PutsOf(s)) = Len(Delivered(s))

\* a step during which the send of stream s stays blocked records no error
\* and writes no position for stream s
QuietWhileBlocked(s) ==
    (Blocked(s) /\ procPc'[s] = "send") =>
        /\ err' = err
        /\ pending'[s] = pending[s]
        /\ puts' # puts => puts'[Len(puts')].stream # s

\* C14 as stated: a blocked send only delays: nothing is dropped or sent
\* twice, and while a send stays blocked no error is recorded, the running
\* flag does not change and no position is written for the blocked line.
C14_SlowSinkFreezesTarget ==
    /\ []NothingDropped
    /\ [][\A s \in Streams :
            /\ QuietWhileBlocked(s)
            /\ (Blocked(s) /\ procPc'[s] = "send") => running' = running]_vars

\* C14 as amended: a blocked send only delays: nothing is dropped or sent
\* twice, and while a send stays blocked no error is recorded, no position
\* is written for the blocked line, and the running flag changes only when
\* the processing loop handles a cancellation (line 133), never otherwise.
C14_SlowSinkOnlyDelays ==
    /\ []NothingDropped
    /\ [][\A s \in Streams :
            /\ QuietWhileBlocked(s)
            /\ (Blocked(s) /\ procPc'[s] = "send" /\ running' # running) =>
                  (cancelled /\ loopPc = "unset" /\ ~running')]_vars

C14_Witness ==
    /\ Blocked("stdout")
    /\ Len(Delivered("stderr")) = 1
    /\ Len(PutsOf("stderr")) = 1
    /\ cancelled
    /\ ~running
    /\ logs = "closed"
    /\ err = NoErr

\* ---- the end of the copy
\* both pipes closed once, the cancellation fired, running false and the
\* combined stream closed
CopyTornDown ==
    /\ \A s \in Streams : closeCount[s] = 1
    /\ cancelled
    /\ ~running
    /\ logs = "closed"

\* the pipes are closed at most once, by the demultiplexer before it calls
\* Stop, and a line processor that has exited had its pipe closed
PipesClosedOnce ==
    /\ \A s \in Streams :
          /\ closeCount[s] <= 1
          /\ procPc[s] = "done" => closeCount[s] = 1
    /\ demuxPc \in {"stop", "stopWait", "done"} =>
          \A s \in Streams : closeCount[s] = 1

\* the cancellation is fired by a call of Stop or by the demultiplexer, never
\* by a step of a line processor, and a line processor exits only from its
\* scan, once its pipe is closed
ProcessorsOnlyFollow ==
    /\ (cancelled' /\ ~cancelled) =>
          /\ procPc' = procPc
          /\ demuxPc = "stop" \/ stopWaiting' = stopWaiting + 1
    /\ \A s \in Streams :
          (procPc'[s] = "done" /\ procPc[s] # "done") =>
              (procPc[s] = "scan" /\ closeCount[s] = 1)

\* C13: whenever the copy of the demultiplexer has ended, for whatever
\* reason, both pipes get closed exactly once, the cancellation fires, and
\* the processing loop sets running to false and closes the combined
\* stream; a line processor never fires the cancellation and exits only once
\* its pipe is closed.
C13_CopyEndTearsDown ==
    /\ []PipesClosedOnce
    /\ [][ProcessorsOnlyFollow]_vars
    /\ (copyEnd # "none") ~> CopyTornDown

\* the copy ended with an error, nobody called Stop, and the teardown is done
C13_Witness ==
    /\ copyEnd = "error"
    /\ stopWaiting = 0
    /\ stopReturned = 0
    /\ CopyTornDown
    /\ \A s \in Streams : procPc[s] = "done"

\* ---- the combined stream
\* the stream is closed at most once, only after the request succeeded, and
\* only once the cancellation has fired and running is false; a failed
\* request leaves no stream and no close
StreamClosedOnce ==
    /\ logsCloses <= 1
    /\ (logs = "closed") = (logsCloses = 1)
    /\ logs = "closed" => (cancelled /\ ~running /\ err = NoErr)
    /\ err # NoErr => (logs = "none" /\ logsCloses = 0)
    /\ loopPc = "done" => logs # "open"

\* the close is a step of the processing loop at line 134, taken with the
\* cancellation fired and running false
ClosedByLoop ==
    logsCloses' # logsCloses =>
        /\ loopPc = "close"
        /\ logs = "open"
        /\ cancelled
        /\ ~running
        /\ logsCloses' = 1

\* C19: the combined stream is never leaked.  A stream that was acquired is
\* closed exactly once, by the processing loop, after the cancellation has
\* fired and after running was set to false; it is closed whenever a call
\* of Stop has returned; once the cancellation has fired an open stream gets
\* closed; and after a failed request nothing is closed.
C19_StreamNeverLeaked ==
    /\ []StreamClosedOnce
    /\ [][ClosedByLoop]_vars
    /\ [](stopReturned > 0 => logs # "open")
    /\ (logs = "open" /\ cancelled) ~> (logs = "closed")

\* ---- extractTs on its own
\* the longest probe line
MaxLineLen == 4

\* the characters of the probe lines: two timestamps, the space, another one
LineChars == {"3", "4", " ", "x"}

RECURSIVE LinesOfLen(_)
LinesOfLen(n) ==
    IF n = 0 THEN {<<>>}
    ELSE {Append(l, c) : l \in LinesOfLen(n - 1), c \in LineChars}

ProbeLines == UNION {LinesOfLen(n) : n \in 0..MaxLineLen}

\* lines 140-150: extractTs(probe)
Extract ==
    /\ extracted = NoResult
    /\ extracted' = extractTs(probe)
    /\ UNCHANGED <<posStore, puts, getFails, args, probe, peer, targetVars, running,
                   err, cancelled, wg, loopVars, demuxVars, procVars, stopVars,
                   obsVars>>

ExtractInit == InitLine(PlainArgs, 0, ProbeLines)

ExtractNext == Extract

ExtractSpec == ExtractInit /\ [][ExtractNext]_vars

\* the line has a space at position i and none before it
FirstSpaceAt(line, i) ==
    /\ i \in 1..Len(line)
    /\ line[i] = " "
    /\ \A j \in 1..(i - 1) : line[j] # " "

\* a validly formatted timestamp
ValidTs(tok) == Len(tok) = 1 /\ tok[1] \in TimeChars

\* C12: extractTs splits the line at its first space only.  For a line
\* "<ts> <text>" with a valid timestamp it returns the parsed timestamp, the
\* whole remainder after the first space, further spaces included, and no
\* error; for a line without a space or with an unparsable first token it
\* returns an error and the line as it was given.
C12_ExtractSplitsAtFirstSpace ==
    extracted # NoResult =>
        /\ \A i \in 1..Len(probe) :
              (FirstSpaceAt(probe, i) /\ ValidTs(SubSeq(probe, 1, i - 1))) =>
                  /\ extracted.err = NoErr
                  /\ extracted.ts = TickOf(probe[1])
                  /\ extracted.line = SubSeq(probe, i + 1, Len(probe))
        /\ ((\A i \in 1..Len(probe) : probe[i] # " ")
              \/ \E i \in 1..Len(probe) :
                    FirstSpaceAt(probe, i) /\ ~ValidTs(SubSeq(probe, 1, i - 1))) =>
                  /\ extracted.err # NoErr
                  /\ extracted.line = probe

\* a timestamp followed by a text that itself holds a space
C12_Witness ==
    /\ extracted.err = NoErr
    /\ probe = <<"4", " ", "x", " ">> \/ probe = <<"3", " ", " ", "x">>
    /\ Len(extracted.line) = 2

\* a line with a space whose first token is no timestamp
C12_WitnessError ==
    /\ extracted.err # NoErr
    /\ extracted # NoResult
    /\ probe = <<"x", " ", "3", " ">>
    /\ extracted.line = probe

\* ---- two targets
\* The second Target runs the same code for the container peerName, with its
\* own fields, context and wait group, and with the position store, the
\* metrics and the entry handler of the first, as their owner passes them.
\* Its container writes to stdout only.  The wait of an external Stop holds
\* up the caller and no goroutine of the target; it is not a step here.
MaxPeerLines == 1

\* the frames the first container writes while a second Target runs
MaxIsoFrames == 1

\* the labels the second Target is created with
PeerLabels == (<<"j">> :> "p")

\* the lines the second container writes: one with a timestamp, one without
\* a space, one longer than the scanner's buffer
PeerLines == { <<"4", " ", "x">>, <<"x">>, <<"3", " ", "x", "x">> }

\* lines 47-84 for the second Target: positions.Get under its own key
PeerNewTarget ==
    /\ peer.pc = "none"
    /\ peer' = [peer EXCEPT !.pc = LoopSpawned,
                            !.since = SinceOf(posStore[CursorKey(peerName)]),
                            !.labels = PeerLabels]
    /\ UNCHANGED <<posStore, puts, getFails, args, probeVars, targetVars, running,
                   err, cancelled, wg, loopVars, demuxVars, procVars, stopVars,
                   obsVars>>

\* line 87 for the second Target: t.wg.Add(1)
PeerAdd ==
    /\ peer.pc = "spawned"
    /\ peer' = [peer EXCEPT !.pc = "store", !.wg = @ + 1]
    /\ UNCHANGED <<posStore, puts, getFails, args, probeVars, targetVars, running,
                   err, cancelled, wg, loopVars, demuxVars, procVars, stopVars,
                   obsVars>>

\* line 89 for the second Target: t.running.Store(true)
PeerStore ==
    /\ peer.pc = "store"
    /\ peer' = [peer EXCEPT !.pc = "fetch", !.running = TRUE]
    /\ UNCHANGED <<posStore, puts, getFails, args, probeVars, targetVars, running,
                   err, cancelled, wg, loopVars, demuxVars, procVars, stopVars,
                   obsVars>>

\* lines 91-99 for the second Target: ContainerLogs is called
PeerCall ==
    /\ peer.pc = "fetch"
    /\ peer' = [peer EXCEPT !.pc = "fetching"]
    /\ UNCHANGED <<posStore, puts, getFails, args, probeVars, targetVars, running,
                   err, cancelled, wg, loopVars, demuxVars, procVars, stopVars,
                   obsVars>>

\* line 99 for the second Target: ContainerLogs returns the stream
PeerFetchOk ==
    /\ peer.pc = "fetching"
    /\ peer' = [peer EXCEPT !.pc = "spawnDemux", !.logs = "open"]
    /\ UNCHANGED <<posStore, puts, getFails, args, probeVars, targetVars, running,
                   err, cancelled, wg, loopVars, demuxVars, procVars, stopVars,
                   obsVars>>

\* lines 99-101 for the second Target: ContainerLogs fails with e
PeerFetchFail(e) ==
    /\ peer.pc = "fetching"
    /\ peer' = [peer EXCEPT !.pc = "ret", !.err = e]
    /\ UNCHANGED <<posStore, puts, getFails, args, probeVars, targetVars, running,
                   err, cancelled, wg, loopVars, demuxVars, procVars, stopVars,
                   obsVars>>

\* line 103 for the second Target, with the deferred t.wg.Done()
PeerReturn ==
    /\ peer.pc = "ret"
    /\ peer' = [peer EXCEPT !.pc = "done", !.wg = @ - 1]
    /\ UNCHANGED <<posStore, puts, getFails, args, probeVars, targetVars, running,
                   err, cancelled, wg, loopVars, demuxVars, procVars, stopVars,
                   obsVars>>

\* lines 107-110 for the second Target: the pipes, t.wg.Add(1) and the
\* StdCopy goroutine
PeerSpawnDemux ==
    /\ peer.pc = "spawnDemux"
    /\ peer' = [peer EXCEPT !.pc = "spawnProc", !.wg = @ + 1, !.demux = "copy"]
    /\ UNCHANGED <<posStore, puts, getFails, args, probeVars, targetVars, running,
                   err, cancelled, wg, loopVars, demuxVars, procVars, stopVars,
                   obsVars>>

\* lines 127-129 for the second Target: t.wg.Add(2) and the two process
\* goroutines
PeerSpawnProc ==
    /\ peer.pc = "spawnProc"
    /\ peer' = [peer EXCEPT !.pc = "wait", !.wg = @ + 2,
                            !.proc = [s \in Streams |-> "scan"]]
    /\ UNCHANGED <<posStore, puts, getFails, args, probeVars, targetVars, running,
                   err, cancelled, wg, loopVars, demuxVars, procVars, stopVars,
                   obsVars>>

\* line 132 for the second Target: <-ctx.Done() returns
PeerWait ==
    /\ peer.pc = "wait"
    /\ peer.cancelled
    /\ peer' = [peer EXCEPT !.pc = "unset"]
    /\ UNCHANGED <<posStore, puts, getFails, args, probeVars, targetVars, running,
                   err, cancelled, wg, loopVars, demuxVars, procVars, stopVars,
                   obsVars>>

\* line 133 for the second Target: t.running.Store(false)
PeerUnset ==
    /\ peer.pc = "unset"
    /\ peer' = [peer EXCEPT !.pc = "close", !.running = FALSE]
    /\ UNCHANGED <<posStore, puts, getFails, args, probeVars, targetVars, running,
                   err, cancelled, wg, loopVars, demuxVars, procVars, stopVars,
                   obsVars>>

\* line 134 for the second Target: logs.Close()
PeerClose ==
    /\ peer.pc = "close"
    /\ peer' = [peer EXCEPT !.pc = "exit", !.logs = "closed"]
    /\ UNCHANGED <<posStore, puts, getFails, args, probeVars, targetVars, running,
                   err, cancelled, wg, loopVars, demuxVars, procVars, stopVars,
                   obsVars>>

\* lines 135-136 for the second Target, with the deferred t.wg.Done()
PeerExit ==
    /\ peer.pc = "exit"
    /\ peer' = [peer EXCEPT !.pc = "done", !.wg = @ - 1]
    /\ UNCHANGED <<posStore, puts, getFails, args, probeVars, targetVars, running,
                   err, cancelled, wg, loopVars, demuxVars, procVars, stopVars,
                   obsVars>>

\* line 118 for the second Target: StdCopy reads a frame and starts writing
\* its line to the stdout pipe
PeerRead(line) ==
    /\ peer.demux = "copy"
    /\ peer.logs = "open"
    /\ peer.lines < MaxPeerLines
    /\ peer' = [peer EXCEPT !.demux = "write", !.frame = line, !.lines = @ + 1]
    /\ UNCHANGED <<posStore, puts, getFails, args, probeVars, targetVars, running,
                   err, cancelled, wg, loopVars, demuxVars, procVars, stopVars,
                   obsVars>>

\* lines 118-123 for the second Target: StdCopy returns, the read on logs
\* having ended (EOF or error on an open stream, or the stream closed)
PeerCopyEnd ==
    /\ peer.demux = "copy"
    /\ peer.logs \in {"open", "closed"}
    /\ peer' = [peer EXCEPT !.demux = "deferDone"]
    /\ UNCHANGED <<posStore, puts, getFails, args, probeVars, targetVars, running,
                   err, cancelled, wg, loopVars, demuxVars, procVars, stopVars,
                   obsVars>>

\* line 112 for the second Target: t.wg.Done()
PeerDemuxDone ==
    /\ peer.demux = "deferDone"
    /\ peer' = [peer EXCEPT !.demux = "closeStdout", !.wg = @ - 1]
    /\ UNCHANGED <<posStore, puts, getFails, args, probeVars, targetVars, running,
                   err, cancelled, wg, loopVars, demuxVars, procVars, stopVars,
                   obsVars>>

\* line 113 for the second Target: wstdout.Close()
PeerCloseStdout ==
    /\ peer.demux = "closeStdout"
    /\ peer' = [peer EXCEPT !.demux = "closeStderr", !.closed["stdout"] = TRUE]
    /\ UNCHANGED <<posStore, puts, getFails, args, probeVars, targetVars, running,
                   err, cancelled, wg, loopVars, demuxVars, procVars, stopVars,
                   obsVars>>

\* line 114 for the second Target: wstderr.Close()
PeerCloseStderr ==
    /\ peer.demux = "closeStderr"
    /\ peer' = [peer EXCEPT !.demux = "stop", !.closed["stderr"] = TRUE]
    /\ UNCHANGED <<posStore, puts, getFails, args, probeVars, targetVars, running,
                   err, cancelled, wg, loopVars, demuxVars, procVars, stopVars,
                   obsVars>>

\* line 115 for the second Target, t.Stop(), line 202: t.cancel()
PeerDemuxStop ==
    /\ peer.demux = "stop"
    /\ peer' = [peer EXCEPT !.demux = "stopWait", !.cancelled = TRUE]
    /\ UNCHANGED <<posStore, puts, getFails, args, probeVars, targetVars, running,
                   err, cancelled, wg, loopVars, demuxVars, procVars, stopVars,
                   obsVars>>

\* line 115 for the second Target, t.Stop(), lines 203-205: t.wg.Wait()
\* returns
PeerDemuxWait ==
    /\ peer.demux = "stopWait"
    /\ peer.wg = 0
    /\ peer' = [peer EXCEPT !.demux = "done"]
    /\ UNCHANGED <<posStore, puts, getFails, args, probeVars, targetVars, running,
                   err, cancelled, wg, loopVars, demuxVars, procVars, stopVars,
                   obsVars>>

\* lines 158-182 for the second Target: the stdout line processor takes the
\* line StdCopy is writing and extracts its timestamp; a line without a
\* timestamp is counted, in the metrics of the first Target, and skipped
PeerScan ==
    /\ peer.proc["stdout"] = "scan"
    /\ peer.demux = "write"
    /\ ~TooLong(peer.frame)
    /\ LET r == extractTs(peer.frame)
       IN  IF r.err # NoErr
           THEN /\ dockerErrors' = ErrorsInc(dockerErrors)
                /\ peer' = [peer EXCEPT !.demux = "copy", !.frame = <<>>]
           ELSE /\ peer' = [peer EXCEPT !.demux = "copy", !.frame = <<>>,
                                        !.proc["stdout"] = "send",
                                        !.pending = [ts |-> r.ts, line |-> r.line]]
                /\ UNCHANGED dockerErrors
    /\ UNCHANGED <<posStore, puts, getFails, args, probeVars, targetVars, running,
                   err, cancelled, wg, loopVars, demuxVars, procPc, pending, sink,
                   dockerEntries, stopVars, obsVars>>

\* lines 158, 194-197 and 153-155 for the second Target: the line fills
\* the scanner's buffer, Scan fails and the line processor returns; the
\* write of StdCopy never returns
PeerTooLong ==
    /\ peer.proc["stdout"] = "scan"
    /\ peer.demux = "write"
    /\ TooLong(peer.frame)
    /\ peer' = [peer EXCEPT !.proc["stdout"] = "done", !.wg = @ - 1]
    /\ UNCHANGED <<posStore, puts, getFails, args, probeVars, targetVars, running,
                   err, cancelled, wg, loopVars, demuxVars, procVars, stopVars,
                   obsVars>>

\* lines 183-189 for the second Target: the entry handler, the one of the
\* first Target, has received the entry
PeerSend ==
    /\ peer.proc["stdout"] = "send"
    /\ sink' = SinkAppend(sink,
                  [stream |-> "stdout",
                   labels |-> FilterLabels(
                                 Process(BuildLabels(peer.labels, "stdout"), <<>>)),
                   ts     |-> peer.pending.ts,
                   line   |-> peer.pending.line])
    /\ peer' = [peer EXCEPT !.proc["stdout"] = "inc"]
    /\ UNCHANGED <<posStore, puts, getFails, args, probeVars, targetVars, running,
                   err, cancelled, wg, loopVars, demuxVars, procPc, pending,
                   dockerErrors, dockerEntries, stopVars, obsVars>>

\* line 190 for the second Target: dockerEntries.Inc() on the metrics of the
\* first Target
PeerInc ==
    /\ peer.proc["stdout"] = "inc"
    /\ dockerEntries' = dockerEntries + 1
    /\ peer' = [peer EXCEPT !.proc["stdout"] = "put"]
    /\ UNCHANGED <<posStore, puts, getFails, args, probeVars, targetVars, running,
                   err, cancelled, wg, loopVars, demuxVars, procPc, pending, sink,
                   dockerErrors, stopVars, obsVars>>

\* line 191 for the second Target: positions.Put under its own key
PeerPut ==
    /\ peer.proc["stdout"] = "put"
    /\ posStore' = [posStore EXCEPT ![CursorKey(peerName)] =
                        PutValue(@, Unix(peer.pending.ts))]
    /\ peer' = [peer EXCEPT !.proc["stdout"] = "scan",
                            !.pending = [ts |-> 0, line |-> <<>>]]
    /\ UNCHANGED <<puts, getFails, args, probeVars, targetVars, running, err,
                   cancelled, wg, loopVars, demuxVars, procVars, stopVars,
                   obsVars>>

\* lines 158, 194-199 and 153-155 for the second Target: Scan returns
\* false, the pipe writer of stream s being closed; the deferred t.wg.Done()
PeerEOF(s) ==
    /\ peer.proc[s] = "scan"
    /\ peer.closed[s]
    /\ peer' = [peer EXCEPT !.proc[s] = "done", !.wg = @ - 1]
    /\ UNCHANGED <<posStore, puts, getFails, args, probeVars, targetVars, running,
                   err, cancelled, wg, loopVars, demuxVars, procVars, stopVars,
                   obsVars>>

\* line 202 for the second Target: its owner calls Stop: t.cancel(); a call
\* made with the context already done changes nothing
PeerStop ==
    /\ peer.pc # "none"
    /\ ~peer.cancelled
    /\ peer' = [peer EXCEPT !.cancelled = TRUE]
    /\ UNCHANGED <<posStore, puts, getFails, args, probeVars, targetVars, running,
                   err, cancelled, wg, loopVars, demuxVars, procVars, stopVars,
                   obsVars>>

PeerNext ==
    \/ PeerNewTarget
    \/ PeerAdd
    \/ PeerStore
    \/ PeerCall
    \/ PeerFetchOk
    \/ \E e \in FetchErrors : PeerFetchFail(e)
    \/ PeerReturn
    \/ PeerSpawnDemux
    \/ PeerSpawnProc
    \/ PeerWait
    \/ PeerUnset
    \/ PeerClose
    \/ PeerExit
    \/ \E line \in PeerLines : PeerRead(line)
    \/ PeerCopyEnd
    \/ PeerDemuxDone
    \/ PeerCloseStdout
    \/ PeerCloseStderr
    \/ PeerDemuxStop
    \/ PeerDemuxWait
    \/ PeerScan
    \/ PeerTooLong
    \/ PeerSend
    \/ PeerInc
    \/ PeerPut
    \/ \E s \in Streams : PeerEOF(s)
    \/ PeerStop

\* the first Target is created with a stored cursor; the second finds none
IsoInit ==
    /\ InitWith(PlainArgs, MaxIsoFrames)
    /\ ~getFails
    /\ posStore[CursorKey(containerName)] = MaxCursor

\* the frames the first container writes while a second Target runs: lines
\* with a timestamp on stdout
IsoFrames == { f \in Frames : f.stream = "stdout" /\ f.line = <<"3", " ", "x">> }

\* the steps of the first Target with such a container: no line of it fills
\* the scanner's buffer
IsoOwnNext ==
    \/ NewTarget
    \/ LoopAdd
    \/ LoopStore
    \/ LoopCall
    \/ LoopFetchOk
    \/ \E e \in FetchErrors : LoopFetchFail(e)
    \/ LoopReturn
    \/ LoopSpawnDemux
    \/ LoopSpawnProc
    \/ LoopWait
    \/ LoopUnset
    \/ LoopClose
    \/ LoopExit
    \/ \E f \in IsoFrames : DemuxRead(f)
    \/ \E how \in {"eof", "error", "closed"} : DemuxEnd(how)
    \/ DemuxDone
    \/ DemuxCloseStdout
    \/ DemuxCloseStderr
    \/ DemuxStopCancel
    \/ DemuxStopWait
    \/ \E s \in Streams : ProcScan(s)
    \/ \E s \in Streams : ProcSend(s)
    \/ \E s \in Streams : ProcInc(s)
    \/ \E s \in Streams : ProcPut(s)
    \/ \E s \in Streams : ProcEOF(s)
    \/ StopCall
    \/ StopReturn
    \/ Details

IsoNext == IsoOwnNext \/ PeerNext

IsoSpec == IsoInit /\ [][IsoNext]_vars

\* the fields and workers of the first Target: every variable of it but the
\* position store, the metrics and the entries the handler received, which
\* the two targets share
ownVars ==
    <<puts, targetVars, running, err, cancelled, wg, loopVars, demuxVars,
      procPc, pending, stopVars, obsVars>>

\* C11: two targets created for different containers are isolated.  A step
\* of one target (a processed line, a failed request, Stop, any other)
\* leaves the cursor, labels, running flag and error of the other as they
\* were, and each target reads and writes the position store only under
\* the key of its own container.
C11_TargetsIsolated ==
    [][/\ ownVars' # ownVars =>
            /\ peer' = peer
            /\ posStore'[peerName] = posStore[peerName]
       /\ peer' # peer =>
            /\ ownVars' = ownVars
            /\ posStore'[containerName] = posStore[containerName]
       /\ (newResult = "none" /\ newResult' = "ok") =>
            since' = SinceOf(posStore[containerName])
       /\ (peer.pc = "none" /\ peer'.pc # "none") =>
            peer'.since = SinceOf(posStore[peerName])
       /\ posStore' # posStore => (ownVars' # ownVars \/ peer' # peer)]_vars

\* both targets have written their cursors; the copying goroutine of the
\* second is inside Stop, waiting for a worker that has not returned, and
\* the loop of the second has cleared its running flag; the first still
\* streams with its own cursor and no error
C11_Witness ==
    /\ peer.demux = "stopWait"
    /\ peer.wg > 0
    /\ ~peer.running
    /\ peer.proc["stdout"] = "scan"
    /\ posStore[peerName] = 2
    /\ Len(puts) = 1
    /\ posStore[containerName] # posStore[peerName]
    /\ running
    /\ err = NoErr
    /\ labels # peer.labels

====
